---- MODULE Spec2Model ----
(***************************************************************************)
(* Model of helix-view/src/handlers/wakatime.rs: the WakaTime Handler      *)
(* (producer end of an unbounded channel plus a shared configuration       *)
(* cell), the Worker task that drains the channel and posts heartbeats,    *)
(* send_document_heartbeat and the DocumentDidOpen hook.                   *)
(*                                                                         *)
(* Atomicity.  The worker is one tokio task; between two await points it   *)
(* runs without yielding.  One poll of the task that receives an event     *)
(* runs recv(), takes the read guard of the configuration cell, gates and  *)
(* builds the request up to send().await; receiving commutes with every    *)
(* producer step (push at the tail, write of the cell), so that poll is    *)
(* one action.  The parking_lot read guard taken at line 139 lives until   *)
(* process_event returns, hence across send().await.                       *)
(***************************************************************************)
EXTENDS Integers, Sequences, FiniteSets, TLC

\* ------------------------------------------------------------------ bounds
MaxCalls == 2        \* producer calls (hook firings and send_heartbeat calls)
MaxDepth == 3        \* components of a path handed to get_project_name
MaxLen == 3          \* characters of a document text

\* ------------------------------------------------------------- basic values
\* Option<T>: None is the empty tuple, Some(x) the one-element tuple.
None == <<>>

Some(x) == <<x>>

Unwrap(o) == o[1]

Last(s) == s[Len(s)]

RemoveAt(s, i) == SubSeq(s, 1, i - 1) \o SubSeq(s, i + 1, Len(s))

\* `as u32` of a usize: n mod 2^32.  Every natural TLC represents is below
\* 2^31, where the cast keeps the value.
U32(n) == n

\* ------------------------------------------------------------------- paths
\* An absolute path is the sequence of its components; <<>> is the root "/".
PathParent(p) == IF p = <<>> THEN None ELSE Some(SubSeq(p, 1, Len(p) - 1))

PathFileName(p) == IF p = <<>> THEN None ELSE Some(Last(p))

PathJoin(p, name) == Append(p, name)

\* File names are byte strings (OsStr); these are not valid Unicode.
InvalidUnicode == {"caf\\xE9"}

\* OsStr::to_str: None unless the name is valid Unicode
to_str(name) == IF name \in InvalidUnicode THEN None ELSE Some(name)

\* OsStr::to_string_lossy: invalid sequences become U+FFFD
to_string_lossy(name) == IF name \in InvalidUnicode THEN "caf\\uFFFD" ELSE name

\* path.to_string_lossy().to_string(): the components behind "/" separators
RECURSIVE PathToString(_)
PathToString(p) ==
    IF p = <<>> THEN <<"/">>
    ELSE IF Len(p) = 1 THEN <<"/", to_string_lossy(p[1])>>
    ELSE PathToString(SubSeq(p, 1, Len(p) - 1)) \o <<"/", to_string_lossy(Last(p))>>

Indicators == {".git", ".hg", ".svn", "Cargo.toml", "package.json", "pyproject.toml"}

\* Mutant: the walk keeps going and the outermost marked directory wins
RECURSIVE get_project_name_outermost(_, _)
get_project_name_outermost(current, fs) ==
    LET parent == PathParent(current) IN
    IF parent = None THEN None
    ELSE LET outer == get_project_name_outermost(Unwrap(parent), fs) IN
         IF outer # None THEN outer
         ELSE IF \E indicator \in Indicators : PathJoin(Unwrap(parent), indicator) \in fs
              THEN LET name == PathFileName(Unwrap(parent)) IN
                   IF name = None THEN None ELSE to_str(Unwrap(name))
              ELSE None

\* get_project_name over a file system fs (the set of paths that exist)
RECURSIVE get_project_name(_, _)
get_project_name(current, fs) ==
    LET parent == PathParent(current) IN
    IF parent = None THEN None
    ELSE IF \E indicator \in Indicators : PathJoin(Unwrap(parent), indicator) \in fs
         THEN LET name == PathFileName(Unwrap(parent)) IN
              IF name = None THEN None ELSE to_str(Unwrap(name))
         ELSE get_project_name(Unwrap(parent), fs)

\* ---------------------------------------------------------------- documents
\* A text is a sequence of characters; "\n" is the line break.
RECURSIVE CountBreaks(_, _)
CountBreaks(text, n) ==
    IF n = 0 THEN 0
    ELSE CountBreaks(text, n - 1) + (IF text[n] = "\n" THEN 1 ELSE 0)

len_lines(text) == CountBreaks(text, Len(text)) + 1

char_to_line(text, pos) == CountBreaks(text, pos)

get_language_name(doc) == doc.language

TextA == <<"c", "\n", "c", "c", "\n", "c">>
TextB == <<"c", "c">>

\* The editor's file system: /repo holds a .git directory.
FS == { <<"repo", ".git">>, <<"repo", "src", "a.rs">> }

Views == {"v1", "v2"}

\* editor.documents: document id -> Document.  selections maps the views
\* that show the document to the primary cursor (a char offset).
Documents ==
    [ d1 |-> [path |-> Some(<<"repo", "src", "a.rs">>), language |-> Some("rust"),
              text |-> TextA, selections |-> [v \in {"v1"} |-> 4]],
      d3 |-> [path |-> None, language |-> None,
              text |-> TextB, selections |-> [v \in {"v1"} |-> 0]] ]

DocIds == {"d1", "d3", "d9"}     \* d9 is not in editor.documents

\* ----------------------------------------------------------- configurations
Config(en, key, url, to, proj, hf, hp) ==
    [enabled |-> en, api_key |-> key, api_url |-> url, timeout |-> to,
     project |-> proj, hide_file_names |-> hf, hide_project_names |-> hp]

\* Configurations handed to update_config; the worker reads enabled, api_key,
\* api_url and timeout.
CellConfigs ==
    { Config(TRUE,  Some("k1"), "u1", 30, None, FALSE, FALSE),
      Config(TRUE,  Some("k2"), "u2", 5,  None, TRUE,  FALSE),
      Config(FALSE, Some("k1"), "u1", 30, None, TRUE,  FALSE),
      Config(TRUE,  None,       "u1", 30, None, FALSE, FALSE) }

\* editor.config().wakatime at a hook firing; send_document_heartbeat reads
\* enabled, project, hide_file_names and hide_project_names.
HookConfigs ==
    { Config(TRUE,  Some("k1"), "u1", 30, None,             FALSE, FALSE),
      Config(TRUE,  Some("k1"), "u1", 30, None,             TRUE,  TRUE),
      Config(TRUE,  Some("k1"), "u1", 30, Some("override"), FALSE, FALSE),
      Config(TRUE,  Some("k1"), "u1", 30, Some("override"), FALSE, TRUE),
      Config(FALSE, Some("k1"), "u1", 30, Some("override"), FALSE, FALSE) }

\* ------------------------------------------------------------------- events
\* Display for WakaTimeEntityType and WakaTimeCategory
EntityTypeToString(t) ==
    CASE t = "File" -> "file" [] t = "Domain" -> "domain" [] t = "App" -> "app"

CategoryToString(c) ==
    CASE c = "Coding" -> "coding" [] c = "Building" -> "building"
      [] c = "Indexing" -> "indexing" [] c = "Debugging" -> "debugging"
      [] c = "Running" -> "running" [] c = "Testing" -> "testing"
      [] c = "Manual" -> "manual" [] c = "Writing" -> "writing"
      [] c = "Designing" -> "designing" [] c = "Researching" -> "researching"

Hidden == <<"HIDDEN">>

\* Mutant: project hiding covers only the inferred project, not the override
Heartbeat_override_kept(doc, cursor_pos, is_write, wakatime_config, now) ==
    LET path == Unwrap(doc.path) IN
    [ entity    |-> IF wakatime_config.hide_file_names THEN Hidden ELSE PathToString(path),
      type_     |-> "File",
      category  |-> "Coding",
      time      |-> now,
      project   |-> IF wakatime_config.project # None THEN wakatime_config.project
                    ELSE IF wakatime_config.hide_project_names THEN None
                    ELSE get_project_name(path, FS),
      language  |-> get_language_name(doc),
      is_write  |-> is_write,
      lines     |-> Some(U32(len_lines(doc.text))),
      lineno    |-> Some(U32(U32(char_to_line(doc.text, cursor_pos)) + 1)),
      cursorpos |-> Some(U32(cursor_pos)) ]

\* Mutant: lineno is the 0-indexed line of the cursor
Heartbeat_lineno_zero_indexed(doc, cursor_pos, is_write, wakatime_config, now) ==
    LET path == Unwrap(doc.path) IN
    [ entity    |-> IF wakatime_config.hide_file_names THEN Hidden ELSE PathToString(path),
      type_     |-> "File",
      category  |-> "Coding",
      time      |-> now,
      project   |-> IF wakatime_config.hide_project_names THEN None
                    ELSE IF wakatime_config.project # None THEN wakatime_config.project
                    ELSE get_project_name(path, FS),
      language  |-> get_language_name(doc),
      is_write  |-> is_write,
      lines     |-> Some(U32(len_lines(doc.text))),
      lineno    |-> Some(U32(char_to_line(doc.text, cursor_pos))),
      cursorpos |-> Some(U32(cursor_pos)) ]

\* The event built by send_document_heartbeat (lines 270-302)
Heartbeat(doc, cursor_pos, is_write, wakatime_config, now) ==
    LET path     == Unwrap(doc.path)
        entity   == PathToString(path)
        language == get_language_name(doc)
        project  == IF wakatime_config.project # None
                    THEN wakatime_config.project
                    ELSE get_project_name(path, FS)
        lines    == U32(len_lines(doc.text))
        line_idx == char_to_line(doc.text, cursor_pos)
    IN  [ entity    |-> IF wakatime_config.hide_file_names THEN Hidden ELSE entity,
          type_     |-> "File",
          category  |-> "Coding",
          time      |-> now,
          project   |-> IF wakatime_config.hide_project_names THEN None ELSE project,
          language  |-> language,
          is_write  |-> is_write,
          lines     |-> Some(lines),
          lineno    |-> Some(U32(U32(line_idx) + 1)),
          cursorpos |-> Some(U32(cursor_pos)) ]

\* Events a caller of the public Handler::send_heartbeat hands over
ApiEvents(now) ==
    { [ entity |-> <<"example.org">>, type_ |-> "Domain", category |-> "Researching",
        time |-> now, project |-> None, language |-> None, is_write |-> TRUE,
        lines |-> None, lineno |-> None, cursorpos |-> None ] }

\* UnboundedSender::send: pushes at the tail; Err when the receiver is gone
ChannelSend(q, rxOpen, event) ==
    IF rxOpen THEN [ok |-> TRUE, queue |-> Append(q, event)]
    ELSE [ok |-> FALSE, queue |-> q]

\* Mutant: the enabled check of lines 262-264 is missing
send_document_heartbeat_ungated(q, rxOpen, doc, view_id, is_write, wakatime_config, now) ==
    IF doc.path = None THEN [panic |-> FALSE, sent |-> FALSE, failed |-> FALSE, queue |-> q]
    ELSE IF view_id \notin DOMAIN doc.selections
         THEN [panic |-> TRUE, sent |-> FALSE, failed |-> FALSE, queue |-> q]
    ELSE LET event == Heartbeat(doc, doc.selections[view_id], is_write, wakatime_config, now)
             r     == ChannelSend(q, rxOpen, event)
         IN  [panic |-> FALSE, sent |-> r.ok, failed |-> ~r.ok, queue |-> r.queue]

\* Mutant: the result of sender.send is unwrapped instead of logged
send_document_heartbeat_send_unwrapped(q, rxOpen, doc, view_id, is_write, wakatime_config, now) ==
    IF ~wakatime_config.enabled THEN [panic |-> FALSE, sent |-> FALSE, failed |-> FALSE, queue |-> q]
    ELSE IF doc.path = None THEN [panic |-> FALSE, sent |-> FALSE, failed |-> FALSE, queue |-> q]
    ELSE IF view_id \notin DOMAIN doc.selections
         THEN [panic |-> TRUE, sent |-> FALSE, failed |-> FALSE, queue |-> q]
    ELSE LET event == Heartbeat(doc, doc.selections[view_id], is_write, wakatime_config, now)
             r     == ChannelSend(q, rxOpen, event)
         IN  [panic |-> ~r.ok, sent |-> r.ok, failed |-> FALSE, queue |-> r.queue]

\* send_document_heartbeat: after the call, the queue and whether the call
\* panicked, pushed its event, or logged a failed send
send_document_heartbeat(q, rxOpen, doc, view_id, is_write, wakatime_config, now) ==
    IF ~wakatime_config.enabled THEN [panic |-> FALSE, sent |-> FALSE, failed |-> FALSE, queue |-> q]
    ELSE IF doc.path = None THEN [panic |-> FALSE, sent |-> FALSE, failed |-> FALSE, queue |-> q]
    ELSE IF view_id \notin DOMAIN doc.selections      \* doc.selection(view_id) indexes a map
         THEN [panic |-> TRUE, sent |-> FALSE, failed |-> FALSE, queue |-> q]
    ELSE LET event == Heartbeat(doc, doc.selections[view_id], is_write, wakatime_config, now)
             r     == ChannelSend(q, rxOpen, event)
         IN  [panic |-> FALSE, sent |-> r.ok, failed |-> ~r.ok, queue |-> r.queue]

\* ------------------------------------------------------------------- worker
\* JSON values of the payload
JNull == <<"null">>
JStr(x) == <<"str", x>>
JNum(x) == <<"num", x>>
JBool(x) == <<"bool", x>>
JOptStr(o) == IF o = None THEN JNull ELSE JStr(Unwrap(o))
JOptNum(o) == IF o = None THEN JNull ELSE JNum(Unwrap(o))

\* Mutant: the payload's lines and lineno are taken from each other's field
Payload_lines_swapped(event) ==
    [ entity    |-> JStr(event.entity),
      type      |-> JStr(EntityTypeToString(event.type_)),
      category  |-> JStr(CategoryToString(event.category)),
      time      |-> JNum(event.time),
      project   |-> JOptStr(event.project),
      language  |-> JOptStr(event.language),
      is_write  |-> JBool(event.is_write),
      lines     |-> JOptNum(event.lineno),
      lineno    |-> JOptNum(event.lines),
      cursorpos |-> JOptNum(event.cursorpos) ]

\* json!({...}) of lines 170-181
Payload(event) ==
    [ entity    |-> JStr(event.entity),
      type      |-> JStr(EntityTypeToString(event.type_)),
      category  |-> JStr(CategoryToString(event.category)),
      time      |-> JNum(event.time),
      project   |-> JOptStr(event.project),
      language  |-> JOptStr(event.language),
      is_write  |-> JBool(event.is_write),
      lines     |-> JOptNum(event.lines),
      lineno    |-> JOptNum(event.lineno),
      cursorpos |-> JOptNum(event.cursorpos) ]

\* Mutant: the request goes to a fixed endpoint with a fixed timeout
BuildRequest_fixed_endpoint(cfg, api_key, event) ==
    [ method  |-> "POST",
      url     |-> "u1",
      auth    |-> <<"Bearer ", api_key>>,
      ctype   |-> "application/json",
      agent   |-> "helix-editor",
      timeout |-> 30,
      json    |-> Payload(event) ]

\* The request of lines 183-193, built from the configuration behind the guard
BuildRequest(cfg, api_key, event) ==
    [ method  |-> "POST",
      url     |-> cfg.api_url,
      auth    |-> <<"Bearer ", api_key>>,
      ctype   |-> "application/json",
      agent   |-> "helix-editor",
      timeout |-> cfg.timeout,
      json    |-> Payload(event) ]

\* Mutant: the enabled check of lines 145-147 is missing
Gate_enabled_unchecked(cell) ==
    IF cell = None THEN "no_config"
    ELSE IF Unwrap(cell).api_key = None THEN "no_key"
    ELSE "pass"

\* The early returns of process_event (lines 139-152) on the cell's value
Gate(cell) ==
    IF cell = None THEN "no_config"
    ELSE IF ~Unwrap(cell).enabled THEN "disabled"
    ELSE IF Unwrap(cell).api_key = None THEN "no_key"
    ELSE "pass"

\* Mutant: the newest event is received first
Recv_newest_first(q, senders) ==
    IF q # <<>> THEN [kind |-> "some", event |-> Last(q), rest |-> SubSeq(q, 1, Len(q) - 1)]
    ELSE IF senders = 0 THEN [kind |-> "none", event |-> None, rest |-> q]
    ELSE [kind |-> "pending", event |-> None, rest |-> q]

\* Mutant: a closed channel yields None although events are still buffered
Recv_closed_first(q, senders) ==
    IF senders = 0 THEN [kind |-> "none", event |-> None, rest |-> q]
    ELSE IF q # <<>> THEN [kind |-> "some", event |-> Head(q), rest |-> Tail(q)]
    ELSE [kind |-> "pending", event |-> None, rest |-> q]

\* receiver.recv(): an event, None (closed and empty), or pending
Recv(q, senders) ==
    IF q # <<>> THEN [kind |-> "some", event |-> Head(q), rest |-> Tail(q)]
    ELSE IF senders = 0 THEN [kind |-> "none", event |-> None, rest |-> q]
    ELSE [kind |-> "pending", event |-> None, rest |-> q]

\* How send().await ends: Ok with a success status, Ok with another status,
\* Err (connection error or the request's timeout)
HttpOutcomes == {"2xx", "non2xx", "err"}

\* -------------------------------------------------------------------- state
VARIABLES
    feature,       \* cfg(feature = "wakatime") of the build
    queue,         \* the unbounded channel's buffer
    config,        \* Arc<RwLock<Option<WakaTimeConfig>>>: the cell's value
    readGuards,    \* read guards of the cell currently held
    workerPc,      \* "start", "idle" (in recv().await), "dispatching", "exited"
                   \* (run returned), "cancelled" (the task was dropped)
    client,        \* Worker.client
    inflight,      \* HTTP requests sent and not completed, with their events
    done,          \* history: events the worker finished, with what became of them
    appPc,         \* the application thread: "ready", "write_wait", "panicked"
    pendingCfg,    \* the argument of the update_config call waiting in write()
    handlerAlive,  \* the Handler (and its sender) has not been dropped
    hookSender,    \* the hook's sender clone: "none", "live", "dropped"
    clock,         \* the wall clock current_timestamp() reads; every producer
                   \* call happens one tick after the one before
    enqLog,        \* history: events pushed on the channel, in order
    sendFailures,  \* history: "Failed to send" warnings logged by the producers
    lastCfg,       \* history: the argument of the last update_config that returned
    args,          \* a call of one function on its own: the function and its arguments
    ret            \* that call's return value, None until it has returned

handlerVars == <<feature, queue, config, readGuards, workerPc, client, inflight, done,
                 appPc, pendingCfg, handlerAlive, hookSender, clock, enqLog,
                 sendFailures, lastCfg>>

callVars == <<args, ret>>

vars == <<handlerVars, callVars>>

appVars == <<appPc, pendingCfg, handlerAlive, hookSender, clock, enqLog,
             sendFailures, lastCfg>>

workerVars == <<workerPc, client, inflight, done, readGuards>>

\* Mutant: Handler::new fills the cell with a usable configuration
Init_default_config ==
    /\ feature \in BOOLEAN
    /\ queue = <<>>
    /\ config = Some(Config(TRUE, Some("k1"), "u1", 30, None, FALSE, FALSE))
    /\ readGuards = 0
    /\ workerPc = "start"
    /\ client = None
    /\ inflight = <<>>
    /\ done = <<>>
    /\ appPc = "ready"
    /\ pendingCfg = None
    /\ handlerAlive = TRUE
    /\ hookSender = "none"
    /\ clock = 0
    /\ enqLog = <<>>
    /\ sendFailures = 0
    /\ lastCfg = None
    /\ args = None
    /\ ret = None

\* Handler::new (lines 94-111)
Init ==
    /\ feature \in BOOLEAN
    /\ queue = <<>>
    /\ config = None
    /\ readGuards = 0
    /\ workerPc = "start"
    /\ client = None
    /\ inflight = <<>>
    /\ done = <<>>
    /\ appPc = "ready"
    /\ pendingCfg = None
    /\ handlerAlive = TRUE
    /\ hookSender = "none"
    /\ clock = 0
    /\ enqLog = <<>>
    /\ sendFailures = 0
    /\ lastCfg = None
    /\ args = None
    /\ ret = None

Senders == (IF handlerAlive THEN 1 ELSE 0) + (IF hookSender = "live" THEN 1 ELSE 0)

RxOpen == workerPc \notin {"exited", "cancelled"}

Running == appPc # "panicked"

\* ------------------------------------------------------------ producer side
\* Mutant: the cell is set once, later configurations are ignored
CellAfterWrite_set_once(cell, wakatime_config) ==
    IF cell = None THEN Some(wakatime_config) ELSE cell

\* *self.config.write() = Some(wakatime_config)
CellAfterWrite(cell, wakatime_config) == Some(wakatime_config)

\* Mutant: the cell is written without waiting for the read guards
update_config_unlocked(wakatime_config) ==
    /\ appPc = "ready"
    /\ handlerAlive
    /\ config' = CellAfterWrite(config, wakatime_config)
    /\ lastCfg' = Some(wakatime_config)
    /\ UNCHANGED <<appPc, pendingCfg>>
    /\ UNCHANGED <<feature, queue, clock, handlerAlive, hookSender, enqLog, sendFailures>>
    /\ UNCHANGED workerVars
    /\ UNCHANGED callVars

\* Handler::update_config: write() waits while a read guard is held
update_config(wakatime_config) ==
    /\ appPc = "ready"
    /\ handlerAlive
    /\ IF readGuards = 0
       THEN /\ config' = CellAfterWrite(config, wakatime_config)
            /\ lastCfg' = Some(wakatime_config)
            /\ UNCHANGED <<appPc, pendingCfg>>
       ELSE /\ appPc' = "write_wait"
            /\ pendingCfg' = Some(wakatime_config)
            /\ UNCHANGED <<config, lastCfg>>
    /\ UNCHANGED <<feature, queue, clock, handlerAlive, hookSender, enqLog, sendFailures>>
    /\ UNCHANGED workerVars
    /\ UNCHANGED callVars

\* write() returns once the last read guard is released
update_config_resume ==
    /\ appPc = "write_wait"
    /\ readGuards = 0
    /\ config' = CellAfterWrite(config, Unwrap(pendingCfg))
    /\ lastCfg' = pendingCfg
    /\ pendingCfg' = None
    /\ appPc' = "ready"
    /\ UNCHANGED <<feature, queue, clock, handlerAlive, hookSender, enqLog, sendFailures>>
    /\ UNCHANGED workerVars
    /\ UNCHANGED callVars

\* Handler::send_heartbeat
send_heartbeat(event) ==
    /\ appPc = "ready"
    /\ handlerAlive
    /\ clock < MaxCalls
    /\ LET r == ChannelSend(queue, RxOpen, event) IN
         /\ queue' = r.queue
         /\ enqLog' = IF r.ok THEN Append(enqLog, event) ELSE enqLog
         /\ sendFailures' = IF r.ok THEN sendFailures ELSE sendFailures + 1
    /\ clock' = clock + 1
    /\ UNCHANGED <<feature, config, appPc, pendingCfg, handlerAlive, hookSender, lastCfg>>
    /\ UNCHANGED workerVars
    /\ UNCHANGED callVars

\* register_hooks: clones the handler's sender into the hook
register_hooks ==
    /\ appPc = "ready"
    /\ handlerAlive
    /\ hookSender = "none"
    /\ hookSender' = "live"
    /\ UNCHANGED <<feature, queue, config, clock, appPc, pendingCfg, handlerAlive, enqLog,
                   sendFailures, lastCfg>>
    /\ UNCHANGED workerVars
    /\ UNCHANGED callVars

\* The DocumentDidOpen hook (lines 318-324)
hook_document_did_open(doc_id, focus, wakatime_config) ==
    /\ appPc = "ready"
    /\ hookSender = "live"
    /\ clock < MaxCalls
    /\ clock' = clock + 1
    /\ IF doc_id \notin DOMAIN Documents              \* documents.get(..).unwrap()
       THEN /\ appPc' = "panicked"
            /\ UNCHANGED <<queue, enqLog, sendFailures>>
       ELSE LET r == send_document_heartbeat(queue, RxOpen, Documents[doc_id], focus,
                                             FALSE, wakatime_config, clock)
            IN  /\ appPc' = IF r.panic THEN "panicked" ELSE appPc
                /\ queue' = r.queue
                /\ enqLog' = IF r.sent THEN Append(enqLog, Last(r.queue)) ELSE enqLog
                /\ sendFailures' = IF r.failed THEN sendFailures + 1 ELSE sendFailures
    /\ UNCHANGED <<feature, config, pendingCfg, handlerAlive, hookSender, lastCfg>>
    /\ UNCHANGED workerVars
    /\ UNCHANGED callVars

\* The Handler is dropped: its sender goes
drop_handler ==
    /\ appPc = "ready"
    /\ handlerAlive
    /\ handlerAlive' = FALSE
    /\ UNCHANGED <<feature, queue, config, clock, appPc, pendingCfg, hookSender, enqLog,
                   sendFailures, lastCfg>>
    /\ UNCHANGED workerVars
    /\ UNCHANGED callVars

\* The hook closure is dropped: its sender clone goes
drop_hook ==
    /\ appPc = "ready"
    /\ hookSender = "live"
    /\ hookSender' = "dropped"
    /\ UNCHANGED <<feature, queue, config, clock, appPc, pendingCfg, handlerAlive, enqLog,
                   sendFailures, lastCfg>>
    /\ UNCHANGED workerVars
    /\ UNCHANGED callVars

\* -------------------------------------------------------------- worker side
\* Worker::run up to the first recv() (lines 128-131)
worker_start ==
    /\ Running
    /\ workerPc = "start"
    /\ client' = IF feature THEN Some("reqwest::Client") ELSE None
    /\ workerPc' = "idle"
    /\ UNCHANGED <<feature, queue, config, inflight, done, readGuards>>
    /\ UNCHANGED appVars
    /\ UNCHANGED callVars

\* Mutant: process_event is not awaited, the loop receives during a dispatch
WorkerCanRecv_unawaited == workerPc \in {"idle", "dispatching"}

\* The worker may poll recv(): it is between two events
WorkerCanRecv == workerPc = "idle"

\* What process_event does with an event up to its first await or its return:
\* "no_config", "disabled", "no_key", "logged" (feature off), "no_client", or "send"
Disposition(cell, feat, cl) ==
    IF Gate(cell) # "pass" THEN Gate(cell)
    ELSE IF ~feat THEN "logged"
    ELSE IF cl = None THEN "no_client"
    ELSE "send"

\* recv() yields an event and process_event runs to send().await or returns
worker_process ==
    /\ Running
    /\ WorkerCanRecv
    /\ appPc # "write_wait"           \* read() waits behind a waiting writer
    /\ LET r == Recv(queue, Senders) IN
         /\ r.kind = "some"
         /\ queue' = r.rest
         /\ LET d == Disposition(config, feature, client) IN
              IF d = "send"
              THEN /\ inflight' = Append(inflight,
                         [event |-> r.event,
                          request |-> BuildRequest(Unwrap(config), Unwrap(Unwrap(config).api_key), r.event),
                          cfg |-> Unwrap(config)])
                   /\ readGuards' = readGuards + 1
                   /\ workerPc' = "dispatching"
                   /\ UNCHANGED done
              ELSE /\ done' = Append(done, [event |-> r.event, disp |-> d, request |-> None])
                   /\ workerPc' = "idle"
                   /\ UNCHANGED <<inflight, readGuards>>
    /\ UNCHANGED <<feature, config, client>>
    /\ UNCHANGED appVars
    /\ UNCHANGED callVars

\* Mutant: an Err of send() ends the loop
AfterAttempt_err_exits(outcome) == IF outcome = "err" THEN "exited" ELSE "idle"

\* Where the worker goes once an HTTP attempt has ended (lines 196-209, 135)
AfterAttempt(outcome) == "idle"

\* Mutant: the read guard is leaked when process_event returns
GuardsAfterReturn_leaked(n) == n

\* config_guard goes out of scope at the end of process_event (line 219)
GuardsAfterReturn(n) == n - 1

\* Mutant: an event whose request ended in Err is pushed back on the channel
http_complete_retry(i, outcome) ==
    /\ Running
    /\ i \in 1..Len(inflight)
    /\ done' = Append(done, [event |-> inflight[i].event, disp |-> outcome,
                             request |-> Some(inflight[i].request)])
    /\ inflight' = RemoveAt(inflight, i)
    /\ readGuards' = GuardsAfterReturn(readGuards)
    /\ workerPc' = AfterAttempt(outcome)
    /\ queue' = IF outcome = "err" THEN Append(queue, inflight[i].event) ELSE queue
    /\ UNCHANGED <<feature, config, client>>
    /\ UNCHANGED appVars
    /\ UNCHANGED callVars

\* send().await completes: the outcome is logged, the guard dropped
http_complete(i, outcome) ==
    /\ Running
    /\ i \in 1..Len(inflight)
    /\ done' = Append(done, [event |-> inflight[i].event, disp |-> outcome,
                             request |-> Some(inflight[i].request)])
    /\ inflight' = RemoveAt(inflight, i)
    /\ readGuards' = GuardsAfterReturn(readGuards)
    /\ workerPc' = AfterAttempt(outcome)
    /\ UNCHANGED <<feature, queue, config, client>>
    /\ UNCHANGED appVars
    /\ UNCHANGED callVars

\* recv() yields None: run returns and the receiver is dropped
worker_exit ==
    /\ Running
    /\ WorkerCanRecv
    /\ Recv(queue, Senders).kind = "none"
    /\ workerPc' = "exited"
    /\ UNCHANGED <<feature, queue, config, client, inflight, done, readGuards>>
    /\ UNCHANGED appVars
    /\ UNCHANGED callVars

\* The tokio runtime the task was spawned on (line 100) shuts down: the task is
\* dropped at its await point, and with it the receiver, the request in flight
\* and the read guard.
runtime_shutdown ==
    /\ appPc = "ready"
    /\ clock < MaxCalls          \* the shutdowns a producer call can still follow
    /\ workerPc \in {"start", "idle", "dispatching"}
    /\ workerPc' = "cancelled"
    /\ done' = done \o [i \in 1..Len(inflight) |->
                          [event |-> inflight[i].event, disp |-> "cancelled",
                           request |-> Some(inflight[i].request)]]
    /\ inflight' = <<>>
    /\ readGuards' = 0
    /\ UNCHANGED <<feature, queue, config, client>>
    /\ UNCHANGED appVars
    /\ UNCHANGED callVars

Next ==
    \/ \E c \in CellConfigs : update_config(c)
    \/ update_config_resume
    \/ \E e \in ApiEvents(clock) : send_heartbeat(e)
    \/ register_hooks
    \/ \E id \in DocIds, v \in Views, c \in HookConfigs : hook_document_did_open(id, v, c)
    \/ drop_handler
    \/ drop_hook
    \/ worker_start
    \/ worker_process
    \/ \E i \in 1..Len(inflight), o \in HttpOutcomes : http_complete(i, o)
    \/ worker_exit
    \/ runtime_shutdown

Spec == Init /\ [][Next]_vars

\* Every HTTP attempt ends (the request carries a timeout, line 191) and the
\* worker task runs on the runtime's threads whatever the caller of
\* update_config does; write() is granted once no read guard is held.
LiveSpec ==
    /\ Spec
    /\ WF_vars(\E i \in 1..Len(inflight), o \in HttpOutcomes : http_complete(i, o))
    /\ WF_vars(update_config_resume)

\* ------------------------------------------- the functions on their own
\* get_project_name and send_document_heartbeat applied to arguments drawn
\* from bounded sets, with the handler left as constructed.
DirNames == {"repo", "caf\\xE9"}

\* Absolute paths of 0..n components
PathsUpTo(n) == UNION { [1..k -> DirNames] : k \in 0..n }

\* What a directory may hold besides its subdirectories
EntryNames == Indicators \cup {"README"}

\* File systems of at most two entries in the directories above a path
FileSystems ==
    LET entries == { PathJoin(d, n) : d \in PathsUpTo(MaxDepth - 1), n \in EntryNames }
    IN  {{}} \cup { {a, b} : a \in entries, b \in entries }

Chars == {"c", "\n"}

Texts == UNION { [1..k -> Chars] : k \in 0..MaxLen }

ProjectNameArgs ==
    { [fn |-> "get_project_name", path |-> p, fs |-> f] :
        p \in PathsUpTo(MaxDepth), f \in FileSystems }

\* Documents shown in view v1 with the primary cursor at any offset of the text
DocumentHeartbeatArgs ==
    UNION { { [fn |-> "send_document_heartbeat",
               doc |-> [path |-> pa, language |-> Some("rust"), text |-> t,
                        selections |-> [v \in {"v1"} |-> cur]],
               view_id |-> "v1", is_write |-> w, wakatime_config |-> c] :
                pa \in {None, Some(<<"repo", "src", "a.rs">>)}, w \in BOOLEAN,
                c \in HookConfigs, cur \in 0..Len(t) } : t \in Texts }

CallInit ==
    /\ feature = TRUE
    /\ queue = <<>>
    /\ config = None
    /\ readGuards = 0
    /\ workerPc = "start"
    /\ client = None
    /\ inflight = <<>>
    /\ done = <<>>
    /\ appPc = "ready"
    /\ pendingCfg = None
    /\ handlerAlive = TRUE
    /\ hookSender = "none"
    /\ clock = 0
    /\ enqLog = <<>>
    /\ sendFailures = 0
    /\ lastCfg = None
    /\ args \in ProjectNameArgs \cup DocumentHeartbeatArgs
    /\ ret = None

call_get_project_name ==
    /\ args.fn = "get_project_name"
    /\ ret = None
    /\ ret' = Some(get_project_name(args.path, args.fs))
    /\ UNCHANGED args
    /\ UNCHANGED handlerVars

\* The return value is the channel after the call and what the call did
call_send_document_heartbeat ==
    /\ args.fn = "send_document_heartbeat"
    /\ ret = None
    /\ ret' = Some(send_document_heartbeat(queue, RxOpen, args.doc, args.view_id,
                                           args.is_write, args.wakatime_config, clock))
    /\ UNCHANGED args
    /\ UNCHANGED handlerVars

CallNext ==
    \/ call_get_project_name
    \/ call_send_document_heartbeat

CallSpec == CallInit /\ [][CallNext]_vars

\* ------------------------------------------------------------------ claims
DoneEvents == [i \in 1..Len(done) |-> done[i].event]

InflightEvents == [i \in 1..Len(inflight) |-> inflight[i].event]

Failures == {"non2xx", "err"}

\* C1: update_config and the producer calls never wait: no reachable state
\* has the application thread waiting in a producer call for the HTTP attempt
\* of the worker to finish.
C1_ProducersNeverWait == appPc # "write_wait"

\* The request of an in-flight entry carries url, key and timeout of cfg
RequestUses(entry, cfg) ==
    /\ entry.request.url = cfg.api_url
    /\ entry.request.auth = <<"Bearer ", Unwrap(cfg.api_key)>>
    /\ entry.request.timeout = cfg.timeout

\* C2: when update_config is called while a record is in flight, the request
\* in flight carries the api_url, api_key and timeout of the configuration read
\* at the dequeue of its record, and from then on it stays as it is until it
\* completes with one of the HTTP outcomes: it is neither changed nor aborted.
C2_InFlightKeepsSnapshot ==
    [][ (inflight # <<>> /\ (appPc = "write_wait" \/ appPc' = "write_wait")) =>
          /\ \A i \in 1..Len(inflight) : RequestUses(inflight[i], inflight[i].cfg)
          /\ \/ inflight' = inflight
             \/ /\ inflight' = <<>>
                /\ Len(done') = Len(done) + 1
                /\ Last(done').request = Some(inflight[1].request)
                /\ Last(done').event = inflight[1].event
                /\ Last(done').disp \in HttpOutcomes ]_vars

C2_Witness ==
    /\ appPc = "write_wait"
    /\ Len(inflight) = 1
    /\ Unwrap(pendingCfg).api_url # inflight[1].request.url
    /\ Unwrap(pendingCfg).timeout # inflight[1].request.timeout

\* C3: records leave the channel in the order they entered it: the events the
\* worker has finished, then the one it is dispatching, then the queued ones
\* are the enqueued events in enqueue order.
C3_Fifo == enqLog = DoneEvents \o InflightEvents \o queue

C3_Witness ==
    /\ Len(done) = 2
    /\ done[1].event.time < done[2].event.time
    /\ done[1].event # done[2].event

\* C4: at most one HTTP request is outstanding, and at most one read guard.
C4_OneInFlight == Len(inflight) <= 1 /\ readGuards <= 1

C4_Witness == Len(inflight) = 1 /\ queue # <<>> /\ workerPc = "dispatching"

\* C5: while the cell holds a configuration with enabled = false no request is
\* issued, and a record dequeued then is discarded as disabled, without a
\* request, whatever the configuration of the call that enqueued it.
C5_DisabledSendsNothing ==
    [][ (config # None /\ ~Unwrap(config).enabled) =>
          /\ Len(inflight') <= Len(inflight)
          /\ Len(queue') < Len(queue) =>
                /\ inflight' = inflight
                /\ done' = Append(done, [event |-> Head(queue), disp |-> "disabled",
                                         request |-> None]) ]_vars

C5_Witness ==
    \E i \in 1..Len(done) : done[i].disp = "disabled" /\ done[i].event.type_ = "File"

\* C6: an HTTP attempt that ends in a non-2xx status or an error leaves the
\* worker idle with the queue as it was and the guard released, and the
\* worker, idle after a failed attempt with a record queued and no writer
\* waiting for the cell, can take that record.
C6_FailureDoesNotBlock ==
    /\ [][ (Len(done') = Len(done) + 1 /\ Last(done').disp \in Failures) =>
             /\ workerPc' = "idle"
             /\ queue' = queue
             /\ readGuards' = 0 ]_vars
    /\ [] ( ( /\ done # <<>>
              /\ Last(done).disp \in Failures
              /\ workerPc = "idle"
              /\ queue # <<>>
              /\ appPc = "ready" ) => ENABLED worker_process )

C6_Witness ==
    /\ Len(done) = 2
    /\ done[1].disp \in Failures
    /\ done[2].disp \in HttpOutcomes

\* C7: every request for a file record issued while the configuration in force
\* at its delivery has hide_file_names = true carries the sentinel "HIDDEN" as
\* its entity, never the path.
C7_HiddenAtDelivery ==
    \A i \in 1..Len(inflight) :
        (inflight[i].event.type_ = "File" /\ inflight[i].cfg.hide_file_names) =>
            inflight[i].request.json.entity = JStr(Hidden)

\* The project send_document_heartbeat is to give a record of document doc
ExpectedProject(doc, cfg) ==
    IF cfg.hide_project_names THEN None
    ELSE IF cfg.project # None THEN cfg.project
    ELSE get_project_name(Unwrap(doc.path), FS)

\* C8: a hook firing that enqueues a record gives it no project when the
\* configuration of the call has hide_project_names = true, and otherwise the
\* project override if there is one, else the inferred project.
C8_ProjectHiding ==
    [][ \A id \in DOMAIN Documents, v \in Views, c \in HookConfigs :
          (hook_document_did_open(id, v, c) /\ Len(enqLog') = Len(enqLog) + 1) =>
              Last(queue').project = ExpectedProject(Documents[id], c) ]_vars

C8_Witness ==
    /\ get_project_name(Unwrap(Documents["d1"].path), FS) = Some("repo")
    /\ \E i \in 1..Len(enqLog) :
          /\ enqLog[i].type_ = "File" /\ enqLog[i].project = None
          /\ enqLog[i].entity = Hidden
    /\ \E i \in 1..Len(enqLog) :
          /\ enqLog[i].type_ = "File" /\ enqLog[i].project = None
          /\ enqLog[i].entity # Hidden

\* C9: a hook firing for a document without a path, or with a configuration
\* that has enabled = false, enqueues nothing and changes nothing but the clock.
C9_NoPathOrDisabledIsNoop ==
    [][ \A id \in DOMAIN Documents, v \in Views, c \in HookConfigs :
          (hook_document_did_open(id, v, c) /\ (Documents[id].path = None \/ ~c.enabled)) =>
              /\ queue' = queue
              /\ enqLog' = enqLog
              /\ UNCHANGED <<feature, config, readGuards, workerPc, client, inflight, done,
                             appPc, pendingCfg, handlerAlive, hookSender>> ]_vars

C9_Witness ==
    /\ clock > Len(enqLog)
    /\ appPc = "ready"
    /\ queue # <<>>

C11_HookNeverPanics == appPc # "panicked"

\* Everything but the clock and the count of logged send failures is unchanged
OnlyFailureLogged ==
    /\ sendFailures' = sendFailures + 1
    /\ appPc' = "ready"
    /\ UNCHANGED <<feature, queue, config, readGuards, workerPc, client, inflight, done,
                   pendingCfg, handlerAlive, hookSender, enqLog, lastCfg>>

\* C12: with the receiver gone, a send_heartbeat call and a hook firing that
\* reaches sender.send return normally: the failure is logged and nothing else
\* changes.
C12_SendFailureSwallowed ==
    [][ ~RxOpen =>
          /\ \A e \in ApiEvents(clock) : send_heartbeat(e) => OnlyFailureLogged
          /\ \A id \in DOMAIN Documents, v \in Views, c \in HookConfigs :
                ( /\ hook_document_did_open(id, v, c)
                  /\ c.enabled
                  /\ Documents[id].path # None
                  /\ v \in DOMAIN Documents[id].selections ) => OnlyFailureLogged ]_vars

C12_Witness ==
    /\ sendFailures = 2
    /\ ~RxOpen
    /\ appPc = "ready"
    /\ hookSender = "live"
    /\ handlerAlive

\* C13: a record dequeued after update_config(c) has returned, and before the
\* next update_config returns, is gated by c.enabled and c.api_key and its
\* request carries c's api_url, api_key and timeout.
C13_UpdateTakesEffect ==
    [][ (lastCfg # None /\ Len(queue') < Len(queue)) =>
          LET c == Unwrap(lastCfg)
              e == Head(queue)
          IN  IF ~c.enabled
              THEN /\ inflight' = inflight
                   /\ done' = Append(done, [event |-> e, disp |-> "disabled", request |-> None])
              ELSE IF c.api_key = None
              THEN /\ inflight' = inflight
                   /\ done' = Append(done, [event |-> e, disp |-> "no_key", request |-> None])
              ELSE IF feature
              THEN /\ done' = done
                   /\ Len(inflight') = Len(inflight) + 1
                   /\ Last(inflight').event = e
                   /\ RequestUses(Last(inflight'), c)
              ELSE /\ inflight' = inflight
                   /\ done' = Append(done, [event |-> e, disp |-> "logged", request |-> None]) ]_vars

\* A record is in flight with the configuration of the last update_config
\* that returned, after an earlier record was discarded under the cell's value
\* before that call.
C13_Witness ==
    /\ lastCfg # None
    /\ Len(done) = 1
    /\ done[1].disp \in {"no_config", "disabled", "no_key"}
    /\ Len(inflight) = 1
    /\ RequestUses(inflight[1], Unwrap(lastCfg))
    /\ inflight[1].request.url = "u2"

\* Directories above a path, the root included
Ancestors(p) == { SubSeq(p, 1, k) : k \in 0..(Len(p) - 1) }

HoldsMarker(d, fs) == \E n \in Indicators : Append(d, n) \in fs

\* The name of a directory; the root has none
DirectoryName(d) == IF d = <<>> THEN None ELSE Some(d[Len(d)])

\* C14: get_project_name(path) returns the name of the innermost directory
\* above the file that holds one of the six markers, and nothing when no
\* directory above the file, up to the root, holds a marker.
C14_InnermostMarkedAncestor ==
    (args # None /\ ret # None) =>
      (args.fn = "get_project_name" =>
        LET marked == { d \in Ancestors(args.path) : HoldsMarker(d, args.fs) } IN
        IF marked = {} THEN Unwrap(ret) = None
        ELSE LET inner == CHOOSE d \in marked : \A e \in marked : Len(e) <= Len(d)
             IN  Unwrap(ret) = DirectoryName(inner))

\* C14 (amended): get_project_name(path) returns the name of the innermost
\* directory above the file that holds one of the six markers when that
\* directory has a name and the name is valid Unicode; it returns nothing when
\* that directory is the root, when its name is not valid Unicode, and when no
\* directory above the file holds a marker.
C14_InnermostMarkedAncestorText ==
    (args # None /\ ret # None) =>
      (args.fn = "get_project_name" =>
        LET marked == { d \in Ancestors(args.path) : HoldsMarker(d, args.fs) } IN
        IF marked = {} THEN Unwrap(ret) = None
        ELSE LET inner == CHOOSE d \in marked : \A e \in marked : Len(e) <= Len(d)
                 name  == DirectoryName(inner)
             IN  Unwrap(ret) = (IF name = None \/ Unwrap(name) \in InvalidUnicode
                                THEN None ELSE name))

\* Two directories above the file hold a marker and the call returned the
\* name of the inner one.
C14_Witness ==
    /\ args # None
    /\ args.fn = "get_project_name"
    /\ args.path = <<"caf\\xE9", "repo", "repo">>
    /\ args.fs = { <<"caf\\xE9", ".hg">>, <<"caf\\xE9", "repo", "Cargo.toml">> }
    /\ ret = Some(Some("repo"))

\* Line breaks among the first n characters of a text
BreaksBefore(text, n) == Cardinality({ i \in 1..n : text[i] = "\n" })

C16_UnsetOrKeylessDiscards ==
    [][ Len(queue') < Len(queue) =>
          /\ (config = None \/ Unwrap(config).api_key = None) =>
                /\ inflight' = inflight
                /\ done' = Append(done, [event |-> Head(queue),
                                         disp |-> IF config = None THEN "no_config"
                                                  ELSE IF ~Unwrap(config).enabled
                                                       THEN "disabled" ELSE "no_key",
                                         request |-> None])
                /\ workerPc' = "idle"
                /\ readGuards' = readGuards
          /\ lastCfg = None => (config = None /\ Last(done').disp = "no_config") ]_vars

\* The first record was dequeued before any update_config and discarded, the
\* second met a configuration without api_key, and the worker is idle.
C16_Witness ==
    /\ Len(done) = 2
    /\ done[1].disp = "no_config"
    /\ done[2].disp = "no_key"
    /\ done[1].request = None /\ done[2].request = None
    /\ inflight = <<>>
    /\ workerPc = "idle"

\* How often a sequence of entries holds the event e
Occurrences(entries, e) == Cardinality({ i \in 1..Len(entries) : entries[i].event = e })

\* C17: every enqueued record is in exactly one place (still queued, in
\* flight, or finished), at most one HTTP request was made for it, and a
\* finished record stays finished: whatever its outcome it is never put back
\* on the channel and never sent again.
C17_ConsumedOnce ==
    [][ /\ \A k \in 1..Len(enqLog') :
             LET e == enqLog'[k] IN
             /\ Occurrences(done', e) + Occurrences(inflight', e)
                  + Cardinality({ i \in 1..Len(queue') : queue'[i] = e }) = 1
             /\ Cardinality({ i \in 1..Len(done') :
                               done'[i].event = e /\ done'[i].request # None })
                  + Occurrences(inflight', e) <= 1
        /\ Len(done') >= Len(done)
        /\ \A i \in 1..Len(done) : done'[i] = done[i] ]_vars

\* The first record's request failed, the record was dropped, and the second
\* record was delivered after it.
C17_Witness ==
    /\ Len(done) = 2
    /\ done[1].disp = "err"
    /\ done[1].request # None
    /\ done[2].disp = "2xx"
    /\ queue = <<>>
    /\ inflight = <<>>

\* The JSON value of an optional field
JsonOfOption(tag, o) == IF o = <<>> THEN <<"null">> ELSE <<tag, o[1]>>

\* The payload carries the record e field for field
CarriesRecord(json, e) ==
    /\ json.entity = <<"str", e.entity>>
    /\ json.type = <<"str", EntityTypeToString(e.type_)>>
    /\ json.category = <<"str", CategoryToString(e.category)>>
    /\ json.time = <<"num", e.time>>
    /\ json.project = JsonOfOption("str", e.project)
    /\ json.language = JsonOfOption("str", e.language)
    /\ json.is_write = <<"bool", e.is_write>>
    /\ json.lines = JsonOfOption("num", e.lines)
    /\ json.lineno = JsonOfOption("num", e.lineno)
    /\ json.cursorpos = JsonOfOption("num", e.cursorpos)

\* C18: a record on the channel never changes (the channel only loses its
\* head or gains a tail); a record is stamped with the clock of the call that
\* built it; and the payload of the request made for the k-th enqueued record
\* carries, field for field, the record as it was enqueued.
C18_QueuedRecordImmutable ==
    [][ /\ \/ queue' = queue
            \/ (queue # <<>> /\ queue' = Tail(queue))
            \/ (Len(queue') = Len(queue) + 1 /\ SubSeq(queue', 1, Len(queue)) = queue)
        /\ Len(enqLog') > Len(enqLog) =>
              /\ Last(enqLog').time = clock
              /\ Last(queue') = Last(enqLog')
              /\ SubSeq(enqLog', 1, Len(enqLog)) = enqLog
        /\ \A i \in 1..Len(inflight') :
              CarriesRecord(inflight'[i].request.json, enqLog'[Len(done') + i])
        /\ \A k \in 1..Len(done') :
              done'[k].request # None =>
                 CarriesRecord(Unwrap(done'[k].request).json, enqLog'[k]) ]_vars

\* The record built at time 0 is in flight after a later producer call and
\* under a configuration that hides file names: its payload has the time and
\* the entity it was built with.
C18_Witness ==
    /\ Len(inflight) = 1
    /\ clock = 2
    /\ inflight[1].event.type_ = "File"
    /\ inflight[1].event.time = 0
    /\ inflight[1].request.json.time = <<"num", 0>>
    /\ inflight[1].cfg.hide_file_names
    /\ inflight[1].request.json.entity = <<"str", <<"/", "repo", "/", "src", "/", "a.rs">>>>
    /\ inflight[1].request.json.lineno = <<"num", 2>>

\* C19: from the worker's read of the cell until process_event returns, the
\* HTTP attempt included, the worker holds the read guard and the cell keeps
\* the value the worker read: no update_config write takes effect in between.
C19_CellStableWhileProcessing ==
    [][ /\ (workerPc = "dispatching") = (readGuards > 0)
        /\ workerPc = "dispatching" =>
              /\ Len(inflight) = 1
              /\ config = Some(inflight[1].cfg)
              /\ config' = config
        /\ (workerPc = "dispatching" /\ workerPc' = "dispatching") =>
              (inflight' = inflight /\ readGuards' = readGuards) ]_vars

\* An update_config with another configuration is waiting in write() while
\* the worker's request is in flight under the configuration it read.
C19_Witness ==
    /\ workerPc = "dispatching"
    /\ readGuards = 1
    /\ appPc = "write_wait"
    /\ pendingCfg # config
    /\ config = Some(inflight[1].cfg)
    /\ RequestUses(inflight[1], Unwrap(config))

\* C20: every update_config returns with the cell holding the configuration
\* it was given: at once when no read guard is held, and otherwise after the
\* HTTP attempt in flight has ended and the worker has dropped its guard; the
\* caller and the worker never wait on each other forever.
C20_UpdateReturns ==
    /\ [][ \A c \in CellConfigs :
              (update_config(c) /\ readGuards = 0) =>
                 (appPc' = "ready" /\ config' = Some(c)) ]_vars
    /\ \A c \in CellConfigs :
          (appPc = "write_wait" /\ pendingCfg = Some(c))
             ~> (appPc = "ready" /\ config = Some(c) /\ lastCfg = Some(c))

\* An update_config with another configuration is waiting in write(); the
\* HTTP attempt that held the read guard has ended and the guard is released,
\* so the write is about to be granted.
C20_Witness ==
    /\ appPc = "write_wait"
    /\ pendingCfg # None
    /\ pendingCfg # config
    /\ readGuards = 0
    /\ workerPc = "idle"
    /\ queue # <<>>
    /\ Len(done) = 1
    /\ done[1].disp \in HttpOutcomes
    /\ ENABLED update_config_resume

====
